---------------------------- MODULE Spec2Model ----------------------------
(***************************************************************************)
(* State-machine model of the client side of hyunseung1119/Data_analysis:  *)
(*   - the zustand chat store (useChatStore) and the ChatPage form and     *)
(*     AnalysisDashboardPage that read it;                                  *)
(*   - DataAnalysisPage with its dataset file id and the analysis tabs     *)
(*     that issue remote calls against it.                                 *)
(* JavaScript's undefined/null is the empty tuple, a present value v is    *)
(* the one-element tuple <<v>>.                                            *)
(***************************************************************************)
EXTENDS Integers, Sequences, FiniteSets, Bags, TLC

\* ------------------------------------------------------------------ bounds
MaxLen == 2          \* longest text typed into the chat input
MaxMessages == 4     \* longest conversation log explored
MaxChatCalls == 2    \* most chat requests in flight at once
NumFileIds == 2      \* file ids the remote service hands out
MaxInFlight == 2      \* most handler-issued calls of the tabs in flight at once
MaxEffectCalls == 3   \* most effect-issued calls of the tabs in flight at once
MaxUploads == 1      \* most onDrop runs in progress at once
MaxCharts == 3       \* most chart requests one mounted VisualizeTab issues

\* ----------------------------------------------------------- option values
None == <<>>
Some(v) == <<v>>
IsSome(o) == o # <<>>
Val(o) == o[1]

\* =======================================================================
\*                       CHAT STORE  (src/README.md)
\* =======================================================================
VARIABLES
    messages,          \* store: conversation log
    isLoading,         \* store
    currentSessionId,  \* store: None or Some(id)
    agentSteps,        \* store: steps of the latest turn
    executionOrder,    \* store
    error,             \* store: None or Some(text)
    input,             \* ChatPage: text of the input box
    chatCalls,         \* /api/chat requests in flight, in issue order
    chatEv,            \* the handler that ran last, and what it was given
    lastSession        \* history: session id of the latest response that had one

chatVars == <<messages, isLoading, currentSessionId, agentSteps,
              executionOrder, error, input, chatCalls, chatEv, lastSession>>

\* --- DataAnalysisPage and its tabs
VARIABLES
    uploadedFile,   \* None or Some([file_id, cols]): cols names the version
                    \* whose numeric/categorical column lists it holds
    profile,        \* None or Some([of, valid]): the profile of version `of`
    correlation,    \* None or Some(file id)
    aiInsights,     \* None or Some(file id): the insights AIInsightsTab stored
    loading,        \* the page's loading flag
    pageError,      \* None or Some(text)
    activeTab,
    calls,          \* bag of remote calls in flight
    preTab,         \* state of the mounted PreprocessTab
    aiTab,          \* state of the mounted AIPreprocessTab
    edaTab,         \* state of the mounted EDATab
    insTab,         \* state of the mounted AIInsightsTab
    lastReturned,   \* history: id of the latest upload/preprocess response
    lastTransformed \* history: new id of the latest successful transformation

\* --- the page's other results and the analysis tabs that fill them
VARIABLES
    chartData,      \* None or Some(request): the chart VisualizeTab stored
    metricsResult,  \* None or Some(file id): BusinessMetricsTab's result
    abTestResult,   \* None or Some(file id): ABTestTab's result
    tsTab,          \* state of the mounted TimeSeriesTab
    segTab,         \* state of the mounted SegmentTab
    bmTab,          \* state of the mounted BusinessMetricsTab
    fcTab,          \* state of the mounted ForecastTab
    visTab,         \* state of the mounted VisualizeTab
    abTab           \* state of the mounted ABTestTab

dataVars == <<uploadedFile, profile, correlation, aiInsights, loading,
              pageError, activeTab, calls, preTab, aiTab, edaTab, insTab,
              lastReturned, lastTransformed, chartData, metricsResult,
              abTestResult, tsTab, segTab, bmTab, fcTab, visTab, abTab>>

vars == <<chatVars, dataVars>>

\* Texts are tuples of characters.
Chars == {" ", "a"}
Texts == UNION {[1..n -> Chars] : n \in 0..MaxLen}

\* String.prototype.trim: drops leading and trailing white space.
RECURSIVE TrimStart(_)
TrimStart(s) == IF s # <<>> /\ Head(s) = " " THEN TrimStart(Tail(s)) ELSE s
RECURSIVE TrimEnd(_)
TrimEnd(s) ==
    IF s # <<>> /\ s[Len(s)] = " " THEN TrimEnd(SubSeq(s, 1, Len(s) - 1)) ELSE s
Trim(s) == TrimEnd(TrimStart(s))

\* The four agents ChatPage shows a card for.
AgentNames == {"law_expert", "calculator", "risk_analyst", "strategist"}

Step(n, c) == [agent_name |-> n, confidence |-> c]

\* What the remote chat service may answer (confidences in tenths).
SessionIds == {None, Some("s1"), Some("s2")}
Confidences == {None, Some(5), Some(9)}
StepLists == {None, Some(<<>>),
              Some(<<Step("law_expert", 5), Step("calculator", 9)>>)}
OrderLists == {None, Some(<<>>), Some(<<"law_expert", "calculator">>)}
ChatResponses ==
    [session_id : SessionIds, answer : {<<"a">>}, confidence : Confidences,
     agent_steps : StepLists, execution_order : OrderLists]
\* error.message of a failed call: a rejected fetch, or the store's own throw.
ChatFailures == {"Failed to fetch", "API request failed"}

UserMessage(q) ==
    [role |-> "user", content |-> q, confidence |-> None,
     agentSteps |-> None, isError |-> FALSE]
AssistantMessageAlt(d) ==
    [role |-> "assistant", content |-> d.answer, confidence |-> None,
     agentSteps |-> d.agent_steps, isError |-> FALSE]
AssistantMessage(d) ==
    [role |-> "assistant", content |-> d.answer, confidence |-> d.confidence,
     agentSteps |-> d.agent_steps, isError |-> FALSE]
ErrorMessageAlt(m) ==
    [role |-> "assistant", content |-> <<"error", m>>, confidence |-> None,
     agentSteps |-> None, isError |-> FALSE]
ErrorMessage(m) ==
    [role |-> "assistant", content |-> <<"error", m>>, confidence |-> None,
     agentSteps |-> None, isError |-> TRUE]

\* addMessage: messages: [...state.messages, message].
AddMessageAlt(ms, m) == <<m>> \o ms
AddMessage(ms, m) == Append(ms, m)

\* The body of the /api/chat request: {query, session_id: currentSessionId}.
ChatRequestAlt(query, sid) == [query |-> query, session_id |-> None]
ChatRequest(query, sid) == [query |-> query, session_id |-> sid]

ChatInit ==
    /\ messages = <<>>
    /\ isLoading = FALSE
    /\ currentSessionId = None
    /\ agentSteps = <<>>
    /\ executionOrder = <<>>
    /\ error = None
    /\ input = <<>>
    /\ chatCalls = <<>>
    /\ chatEv = [op |-> "init", arg |-> None]
    /\ lastSession = None

\* sendMessage up to its await: the user message, the flags, the request.
SendMessageStart(query) ==
    /\ messages' = AddMessage(messages, UserMessage(query))
    /\ isLoading' = TRUE
    /\ error' = None
    /\ chatCalls' = Append(chatCalls, ChatRequest(query, currentSessionId))
    /\ UNCHANGED <<currentSessionId, agentSteps, executionOrder, lastSession>>
    /\ UNCHANGED dataVars

\* The guard of ChatPage.handleSubmit: TRUE when the submission is dropped.
SubmitRejectedAlt(text, busy) == busy
SubmitRejectedNoBusy(text, busy) == Trim(text) = <<>>
SubmitRejected(text, busy) == Trim(text) = <<>> \/ busy

\* ChatPage.handleSubmit (the form's onSubmit).
HandleSubmit ==
    /\ Len(messages) + Len(chatCalls) + 2 <= MaxMessages
    /\ IF SubmitRejected(input, isLoading)
       THEN /\ chatEv' = [op |-> "submitRejected", arg |-> Some(input)]
            /\ UNCHANGED <<messages, isLoading, currentSessionId, agentSteps,
                           executionOrder, error, input, chatCalls,
                           lastSession>>
            /\ UNCHANGED dataVars
       ELSE /\ SendMessageStart(Trim(input))
            /\ input' = <<>>
            /\ chatEv' = [op |-> "submit", arg |-> Some(Trim(input))]

\* The input box's onChange.
SetInput ==
    \E t \in Texts :
        /\ t # input
        /\ input' = t
        /\ chatEv' = [op |-> "setInput", arg |-> None]
        /\ UNCHANGED <<messages, isLoading, currentSessionId, agentSteps,
                       executionOrder, error, chatCalls, lastSession>>
        /\ UNCHANGED dataVars

\* useChatStore.sendMessage called by any code that holds the store.
StoreQueries == {<<>>, <<"a">>}
SendMessage ==
    \E q \in StoreQueries :
        /\ Len(messages) + Len(chatCalls) + 2 <= MaxMessages
        /\ Len(chatCalls) < MaxChatCalls
        /\ SendMessageStart(q)
        /\ chatEv' = [op |-> "sendMessage", arg |-> Some(isLoading)]
        /\ UNCHANGED input

RemoveAt(s, i) == SubSeq(s, 1, i - 1) \o SubSeq(s, i + 1, Len(s))

\* sendMessage after its await, the response being ok.
ChatResponseOkWith(i, d) ==
    /\ chatCalls' = RemoveAt(chatCalls, i)
    /\ currentSessionId' =
           IF IsSome(d.session_id) THEN d.session_id ELSE currentSessionId
    /\ lastSession' = IF IsSome(d.session_id) THEN d.session_id ELSE lastSession
    /\ agentSteps' =
           IF IsSome(d.agent_steps) THEN Val(d.agent_steps) ELSE agentSteps
    /\ executionOrder' =
           IF IsSome(d.execution_order) THEN Val(d.execution_order)
           ELSE executionOrder
    /\ messages' = AddMessage(messages, AssistantMessage(d))
    /\ isLoading' = FALSE
    /\ chatEv' = [op |-> "chatOk", arg |-> d.confidence]
    /\ UNCHANGED <<error, input>>
    /\ UNCHANGED dataVars
ChatResponseOk ==
    \E i \in DOMAIN chatCalls, d \in ChatResponses : ChatResponseOkWith(i, d)

\* sendMessage after its await, the fetch rejected or the status not ok.
ChatResponseFailWith(i, m) ==
    /\ chatCalls' = RemoveAt(chatCalls, i)
    /\ error' = Some(m)
    /\ messages' = AddMessage(messages, ErrorMessage(m))
    /\ isLoading' = FALSE
    /\ chatEv' = [op |-> "chatFail", arg |-> None]
    /\ UNCHANGED <<currentSessionId, agentSteps, executionOrder, input,
                   lastSession>>
    /\ UNCHANGED dataVars
ChatResponseFail ==
    \E i \in DOMAIN chatCalls, m \in ChatFailures : ChatResponseFailWith(i, m)

\* useChatStore.clearMessages.
ClearMessages ==
    /\ messages' = <<>>
    /\ agentSteps' = <<>>
    /\ executionOrder' = <<>>
    /\ chatEv' = [op |-> "clearMessages", arg |-> None]
    /\ UNCHANGED <<isLoading, currentSessionId, error, input, chatCalls,
                   lastSession>>
    /\ UNCHANGED dataVars

\* AnalysisDashboardPage: [...messages].reverse().find(m => m.role === 'assistant')
RECURSIVE FindLastAssistant(_)
FindLastAssistant(ms) ==
    IF ms = <<>> THEN None
    ELSE IF ms[Len(ms)].role = "assistant" THEN Some(ms[Len(ms)])
    ELSE FindLastAssistant(SubSeq(ms, 1, Len(ms) - 1))

RECURSIVE FindFirstAssistant(_)
FindFirstAssistant(ms) ==
    IF ms = <<>> THEN None
    ELSE IF Head(ms).role = "assistant" THEN Some(Head(ms))
    ELSE FindFirstAssistant(Tail(ms))

\* lastAssistantMessage?.confidence || 0
OverallConfidenceAlt(ms) ==
    LET m == FindFirstAssistant(ms)
    IN IF IsSome(m) /\ IsSome(Val(m).confidence) THEN Val(Val(m).confidence)
       ELSE 0
OverallConfidence(ms) ==
    LET m == FindLastAssistant(ms)
    IN IF IsSome(m) /\ IsSome(Val(m).confidence) THEN Val(Val(m).confidence)
       ELSE 0

\* ChatPage: agentSteps.find(s => s.agent_name === name).
HasStep(name) == \E k \in DOMAIN agentSteps : agentSteps[k].agent_name = name

\* ChatPage, the status an AgentCard is given:
\* isLoading && !step ? 'waiting' : step ? 'completed' : 'idle'.
AgentStatusAlt(name) ==
    IF isLoading THEN "waiting" ELSE IF HasStep(name) THEN "completed" ELSE "idle"
AgentStatus(name) ==
    IF isLoading /\ ~HasStep(name) THEN "waiting"
    ELSE IF HasStep(name) THEN "completed" ELSE "idle"

\* =======================================================================
\*        DATA ANALYSIS PAGE  (src/frontend/src/pages/DataAnalysisPage.jsx)
\* =======================================================================
FileIds == 1..NumFileIds
NewFileIds == {None} \cup {Some(f) : f \in FileIds}

\* The results block, and with it the active tab, is rendered.
Visible == uploadedFile # None /\ profile # None /\ ~loading
MountedTab == IF Visible THEN activeTab ELSE "none"
\* The fileId prop every tab is rendered with.
FileProp == Val(uploadedFile).file_id

\* A remote call in flight: its handler, the file id it carries, whether the
\* component that issued it is still mounted, and its other parameters.
Call(kind, f, arg) == [kind |-> kind, file_id |-> f, live |-> TRUE, arg |-> arg]

\* The component whose handler awaits a call.
Owner(kind) ==
    CASE kind \in {"upload", "profile", "correlation"} -> "page"
      [] kind \in {"pre_profile", "pre_eda", "preprocess"} -> "preprocess"
      [] kind \in {"diagnose", "generate", "execute"} -> "ai_preprocess"
      [] kind \in {"fc_columns", "whatif", "anomaly"} -> "forecast"
      [] kind = "chart" -> "visualize"
      [] kind = "column_values" -> "abtest"
      [] OTHER -> kind

\* The remote endpoint a call addresses.
Endpoint(kind) ==
    CASE kind \in {"profile", "pre_profile"} -> "profile"
      [] kind \in {"eda", "pre_eda"} -> "eda"
      [] OTHER -> kind

One(r) == SetToBag({r})
InFlight(kind) == {r \in BagToSet(calls) : r.kind = kind}

RECURSIVE SumCopies(_, _)
SumCopies(B, S) ==
    IF S = {} THEN 0
    ELSE LET r == CHOOSE x \in S : TRUE
         IN CopiesIn(r, B) + SumCopies(B, S \ {r})

PageCalls(B) == SumCopies(B, {r \in BagToSet(B) : Owner(r.kind) = "page"})
\* The calls of the tabs: those their effects issue, and those their
\* handlers issue.
EffectKinds == {"pre_profile", "pre_eda", "eda", "fc_columns", "column_values"}
EffectCallCount(B) == SumCopies(B, {r \in BagToSet(B) : r.kind \in EffectKinds})
TabCalls(B) ==
    SumCopies(B, {r \in BagToSet(B) :
                      Owner(r.kind) # "page" /\ r.kind \notin EffectKinds})

\* The calls of an unmounted component stay in flight; their handlers'
\* state updates no longer reach any component.
KillCalls(B, tab) ==
    LET D(r) == IF Owner(r.kind) = tab THEN [r EXCEPT !.live = FALSE] ELSE r
        T == {D(r) : r \in BagToSet(B)}
    IN [t \in T |-> SumCopies(B, {r \in BagToSet(B) : D(r) = t})]

PreInit == [loading |-> FALSE, result |-> None, error |-> None]
AiInit == [codeInstruction |-> <<>>, generatedCode |-> None,
           codeLoading |-> FALSE, executing |-> FALSE, executeResult |-> None,
           loading |-> FALSE, result |-> FALSE, error |-> None]
EdaInit == [edaData |-> None, loading |-> FALSE, error |-> None]
InsInit == [loading |-> FALSE, error |-> None]

\* The calls the effects of a tab issue when it mounts or its fileId changes.
EffectCalls(tab, f) ==
    CASE tab = "preprocess" ->
             One(Call("pre_profile", Some(f), None))
                 (+) One(Call("pre_eda", Some(f), None))
      [] tab = "eda" -> One(Call("eda", Some(f), None))
      [] tab = "forecast" -> One(Call("fc_columns", Some(f), None))
      [] OTHER -> EmptyBag

\* Initial state of the analysis tabs ("" is the empty selection).
TsInit == [dateCol |-> "", valueCol |-> "", loading |-> FALSE,
           result |-> None, error |-> None]
SegInit == [segmentCol |-> "", loading |-> FALSE, result |-> None,
            error |-> None]
BmInit == [loading |-> FALSE, error |-> None]
FcInit == [dateColumn |-> "", valueColumn |-> "", whatIfColumn |-> "",
           loading |-> FALSE, forecast |-> None, error |-> None,
           whatIfLoading |-> FALSE, whatIfResult |-> None,
           anomalyLoading |-> FALSE, anomalyResult |-> None]
\* issued, lastOk: history; the number of chart requests the mounted tab
\* has issued, and whether the latest of them was answered ok.
VisInit == [chartType |-> "histogram", xColumn |-> "", yColumn |-> "",
            loading |-> FALSE, error |-> None, issued |-> 0, lastOk |-> FALSE]
\* groupValues, groupA, groupB: the group column their values are values of.
AbInit == [groupCol |-> "", groupValues |-> "", groupA |-> "", groupB |-> "",
           metricCol |-> "", loading |-> FALSE, loadingGroups |-> FALSE,
           error |-> None]

\* The state of the analysis tabs, as one record.
An == [ts |-> tsTab, seg |-> segTab, bm |-> bmTab, fc |-> fcTab,
       vis |-> visTab, ab |-> abTab]

\* The columns of the dataset: n is numeric, c is not.
NumericCols == {"n"}
ChartTypes == {"histogram", "scatter"}

\* The request generateChart sends for the tab state v.
ChartCall(f, v) ==
    Call("chart", Some(f),
         Some([type |-> v.chartType, x |-> v.xColumn, y |-> v.yColumn,
               seq |-> v.issued]))

\* generateChart(type, x, y) up to its await, for the tab state v: what it
\* leaves of the state and the call it issues.
GenerateChart(v, f) ==
    IF v.xColumn = "" THEN [vis |-> v, call |-> EmptyBag]
    ELSE IF v.chartType = "histogram" /\ v.xColumn \notin NumericCols
    THEN [vis |-> [v EXCEPT !.error = Some("numeric only")], call |-> EmptyBag]
    ELSE IF v.chartType \in {"scatter", "line"} /\ v.yColumn = ""
    THEN [vis |-> v, call |-> EmptyBag]
    ELSE LET w == [v EXCEPT !.loading = TRUE, !.error = None,
                            !.issued = @ + 1, !.lastOk = FALSE]
         IN [vis |-> w, call |-> One(ChartCall(f, w))]

\* VisualizeTab's effects on mount: the first numeric column becomes the
\* x column, and the effect keyed on xColumn draws its chart.
VisMount(f) == GenerateChart([VisInit EXCEPT !.xColumn = "n"], f)

\* The render that follows a handler: a tab that is no longer rendered loses
\* its state, a tab that appears starts from its initial state, and the
\* effects keyed on fileId (and, for ABTestTab, groupCol) run on mount and
\* on every change of their keys.
\* c, pre, ai, eda, ins, an: what the handler itself left.
CommitAll(c, pre, ai, eda, ins, an) ==
    LET before == MountedTab
        after == MountedTab'
        same == before = after
        refetch == after # "none" /\ (~same \/ FileProp' # FileProp)
        kept == IF same THEN c ELSE KillCalls(c, before)
        eda0 == IF same THEN eda ELSE EdaInit
        vis0 == IF same THEN [vis |-> an.vis, call |-> EmptyBag]
                ELSE IF after = "visualize" THEN VisMount(FileProp')
                ELSE [vis |-> VisInit, call |-> EmptyBag]
        ab0 == IF same THEN an.ab ELSE AbInit
        abRun == after = "abtest" /\ (refetch \/ ab0.groupCol # abTab.groupCol)
        abFetch == abRun /\ ab0.groupCol # ""
    IN /\ preTab' = IF same THEN pre ELSE PreInit
       /\ aiTab' = IF same THEN ai ELSE AiInit
       /\ insTab' = IF same THEN ins ELSE InsInit
       /\ edaTab' = IF after = "eda" /\ refetch
                    THEN [eda0 EXCEPT !.loading = TRUE, !.error = None]
                    ELSE eda0
       /\ tsTab' = IF same THEN an.ts ELSE TsInit
       /\ segTab' = IF same THEN an.seg ELSE SegInit
       /\ bmTab' = IF same THEN an.bm ELSE BmInit
       /\ fcTab' = IF same THEN an.fc ELSE FcInit
       /\ visTab' = vis0.vis
       /\ abTab' = IF abFetch THEN [ab0 EXCEPT !.loadingGroups = TRUE]
                   ELSE IF abRun
                   THEN [ab0 EXCEPT !.groupValues = "", !.groupA = "",
                                    !.groupB = ""]
                   ELSE ab0
       /\ calls' = kept
                   (+) (IF refetch THEN EffectCalls(after, FileProp')
                        ELSE EmptyBag)
                   (+) vis0.call
                   (+) (IF abFetch
                        THEN One(Call("column_values", Some(FileProp'),
                                      Some([column |-> ab0.groupCol])))
                        ELSE EmptyBag)
       /\ TabCalls(calls') <= MaxInFlight
       /\ EffectCallCount(calls') <= MaxEffectCalls
       /\ visTab'.issued <= MaxCharts
       /\ UNCHANGED chatVars

\* The render that follows a handler of the page or of the tabs that keep
\* no result of the page.
Commit(c, pre, ai, eda, ins) ==
    /\ CommitAll(c, pre, ai, eda, ins, An)
    /\ UNCHANGED <<chartData, metricsResult, abTestResult>>

DataInit ==
    /\ uploadedFile = None
    /\ profile = None
    /\ correlation = None
    /\ aiInsights = None
    /\ loading = FALSE
    /\ pageError = None
    /\ activeTab = "overview"
    /\ calls = EmptyBag
    /\ preTab = PreInit
    /\ aiTab = AiInit
    /\ edaTab = EdaInit
    /\ insTab = InsInit
    /\ lastReturned = None
    /\ lastTransformed = None
    /\ chartData = None
    /\ metricsResult = None
    /\ abTestResult = None
    /\ tsTab = TsInit
    /\ segTab = SegInit
    /\ bmTab = BmInit
    /\ fcTab = FcInit
    /\ visTab = VisInit
    /\ abTab = AbInit

\* onDrop up to its first await; the upload area shows while no file is set.
OnDrop ==
    /\ uploadedFile = None
    /\ PageCalls(calls) < MaxUploads
    /\ loading' = TRUE
    /\ pageError' = None
    /\ UNCHANGED <<uploadedFile, profile, correlation, aiInsights, activeTab,
                   lastReturned, lastTransformed>>
    /\ Commit(calls (+) One(Call("upload", None, None)),
              preTab, aiTab, edaTab, insTab)

\* onDrop: the upload answered ok with file id f; the profile request follows.
UploadOkWith(r, f) ==
    /\ uploadedFile' = Some([file_id |-> f, cols |-> Some(f)])
    /\ lastReturned' = Some(f)
    /\ lastTransformed' = None
    /\ UNCHANGED <<profile, correlation, aiInsights, loading, pageError,
                   activeTab>>
    /\ Commit((calls (-) One(r)) (+) One(Call("profile", Some(f), None)),
              preTab, aiTab, edaTab, insTab)
UploadOk == \E r \in InFlight("upload"), f \in FileIds : UploadOkWith(r, f)

\* onDrop: the upload failed (rejected fetch or status not ok).
UploadFail ==
    \E r \in InFlight("upload") :
        /\ pageError' = Some("failed")
        /\ loading' = FALSE
        /\ UNCHANGED <<uploadedFile, profile, correlation, aiInsights,
                       activeTab, lastReturned, lastTransformed>>
        /\ Commit(calls (-) One(r), preTab, aiTab, edaTab, insTab)

\* onDrop: the profile request answered with a JSON body (its status is not
\* looked at, so an error body is stored as the profile too).
ProfileBody ==
    \E r \in InFlight("profile"), valid \in BOOLEAN :
        /\ profile' = Some([of |-> Val(r.file_id), valid |-> valid])
        /\ UNCHANGED <<uploadedFile, correlation, aiInsights, loading,
                       pageError, activeTab, lastReturned,
                       lastTransformed>>
        /\ Commit((calls (-) One(r)) (+) One(Call("correlation", r.file_id, None)),
                  preTab, aiTab, edaTab, insTab)

\* onDrop: the profile request was rejected or its body was not JSON.
ProfileFail ==
    \E r \in InFlight("profile") :
        /\ pageError' = Some("failed")
        /\ loading' = FALSE
        /\ UNCHANGED <<uploadedFile, profile, correlation, aiInsights,
                       activeTab, lastReturned, lastTransformed>>
        /\ Commit(calls (-) One(r), preTab, aiTab, edaTab, insTab)

\* onDrop: the correlation request ended; only an ok answer is stored.
CorrelationDone ==
    \E r \in InFlight("correlation"), ok \in BOOLEAN :
        /\ correlation' = IF ok THEN r.file_id ELSE correlation
        /\ loading' = FALSE
        /\ UNCHANGED <<uploadedFile, profile, aiInsights, pageError,
                       activeTab, lastReturned, lastTransformed>>
        /\ Commit(calls (-) One(r), preTab, aiTab, edaTab, insTab)

\* resetAnalysis; its button shows while a file is set.
ResetAnalysis ==
    /\ uploadedFile # None
    /\ uploadedFile' = None
    /\ profile' = None
    /\ correlation' = None
    /\ aiInsights' = None
    /\ activeTab' = "overview"
    /\ lastReturned' = None
    /\ lastTransformed' = None
    /\ chartData' = None
    /\ metricsResult' = None
    /\ abTestResult' = None
    /\ UNCHANGED <<loading, pageError>>
    /\ CommitAll(calls, preTab, aiTab, edaTab, insTab, An)

\* A tab button's onClick, for the tabs T.
SetActiveTab(T) ==
    \E t \in T :
        /\ Visible
        /\ t # activeTab
        /\ activeTab' = t
        /\ UNCHANGED <<uploadedFile, profile, correlation, aiInsights, loading,
                       pageError, lastReturned, lastTransformed>>
        /\ Commit(calls, preTab, aiTab, edaTab, insTab)

\* The first tab button clicked after the overview appeared.
OpenTab(T) == activeTab = "overview" /\ SetActiveTab(T)

\* The onFileIdChange the page passes to PreprocessTab:
\* setUploadedFile(prev => ({ ...prev, file_id: newId })).
OnFileIdChangeAlt(prev, newId) == prev
OnFileIdChangeDrop(prev, newId) == None
OnFileIdChange(prev, newId) ==
    Some([file_id |-> newId,
          cols |-> IF prev = None THEN None ELSE Val(prev).cols])

\* Whether the page passes an onFileIdChange prop to the tab.
PreprocessHasOnFileIdChange == TRUE
AIPreprocessHasOnFileIdChange == FALSE

\* ------------------------------------------------------- PreprocessTab
\* handleProcess up to its await; its button is disabled while loading.
HandleProcess ==
    /\ MountedTab = "preprocess"
    /\ ~preTab.loading
    /\ UNCHANGED <<uploadedFile, profile, correlation, aiInsights, loading,
                   pageError, activeTab, lastReturned,
                   lastTransformed>>
    /\ Commit(calls (+) One(Call("preprocess", Some(FileProp), None)),
              [loading |-> TRUE, result |-> None, error |-> None],
              aiTab, edaTab, insTab)

\* handleProcess: the response is ok; new is its data.new_file_id.
PreprocessOkWith(r, new) ==
    /\ uploadedFile' = IF IsSome(new) /\ PreprocessHasOnFileIdChange
                       THEN OnFileIdChange(uploadedFile, Val(new))
                       ELSE uploadedFile
    /\ lastReturned' = IF IsSome(new) THEN new ELSE lastReturned
    /\ lastTransformed' = IF IsSome(new) THEN new ELSE lastTransformed
    /\ UNCHANGED <<profile, correlation, aiInsights, loading, pageError,
                   activeTab>>
    /\ Commit(calls (-) One(r),
              IF r.live THEN [loading |-> FALSE, result |-> Some(new),
                              error |-> preTab.error]
              ELSE preTab,
              aiTab, edaTab, insTab)
PreprocessOk ==
    \E r \in InFlight("preprocess"), new \in NewFileIds : PreprocessOkWith(r, new)

\* handleProcess: the fetch was rejected or the status was not ok.
\* What handleProcess's catch and finally leave of the tab's state.
PreprocessCatchAlt(pre) == [pre EXCEPT !.loading = FALSE]
PreprocessCatch(pre) == [pre EXCEPT !.loading = FALSE, !.error = Some("failed")]

PreprocessFailWith(r) ==
    /\ UNCHANGED <<uploadedFile, profile, correlation, aiInsights, loading,
                   pageError, activeTab, lastReturned, lastTransformed>>
    /\ Commit(calls (-) One(r),
              IF r.live THEN PreprocessCatch(preTab) ELSE preTab,
              aiTab, edaTab, insTab)
PreprocessFail == \E r \in InFlight("preprocess") : PreprocessFailWith(r)

\* The effect of PreprocessTab: its profile and EDA fetches end; what they
\* store (columns, edaStats) only feeds the form.
PreprocessEffectDone ==
    \E r \in InFlight("pre_profile") \cup InFlight("pre_eda") :
        /\ UNCHANGED <<uploadedFile, profile, correlation, aiInsights, loading,
                       pageError, activeTab, lastReturned,
                       lastTransformed>>
        /\ Commit(calls (-) One(r), preTab, aiTab, edaTab, insTab)

\* ----------------------------------------------------- AIPreprocessTab
Instructions == {<<>>, <<" ">>, <<"a">>}
GenBodies == [success : BOOLEAN, code : BOOLEAN]
ExecBodies == [success : {None, Some(TRUE), Some(FALSE)}, new_file_id : NewFileIds]

\* The instruction box's onChange.
SetCodeInstruction ==
    \E t \in Instructions :
        /\ MountedTab = "ai_preprocess"
        /\ t # aiTab.codeInstruction
        /\ UNCHANGED <<uploadedFile, profile, correlation, aiInsights, loading,
                       pageError, activeTab, lastReturned,
                       lastTransformed>>
        /\ Commit(calls, preTab, [aiTab EXCEPT !.codeInstruction = t],
                  edaTab, insTab)

\* runDiagnosis up to its await; its button is disabled while loading.
RunDiagnosis ==
    /\ MountedTab = "ai_preprocess"
    /\ ~aiTab.loading
    /\ UNCHANGED <<uploadedFile, profile, correlation, aiInsights, loading,
                   pageError, activeTab, lastReturned,
                   lastTransformed>>
    /\ Commit(calls (+) One(Call("diagnose", Some(FileProp), None)), preTab,
              [aiTab EXCEPT !.loading = TRUE, !.error = None], edaTab, insTab)

\* runDiagnosis after its await.
DiagnoseDone ==
    \E r \in InFlight("diagnose"), ok \in BOOLEAN :
        /\ UNCHANGED <<uploadedFile, profile, correlation, aiInsights, loading,
                       pageError, activeTab, lastReturned,
                       lastTransformed>>
        /\ Commit(calls (-) One(r), preTab,
                  IF ~r.live THEN aiTab
                  ELSE IF ok THEN [aiTab EXCEPT !.loading = FALSE, !.result = TRUE]
                  ELSE [aiTab EXCEPT !.loading = FALSE, !.error = Some("failed")],
                  edaTab, insTab)

\* generateCode up to its await (the Enter key runs it too).
GenerateCode ==
    /\ MountedTab = "ai_preprocess"
    /\ Trim(aiTab.codeInstruction) # <<>>
    /\ UNCHANGED <<uploadedFile, profile, correlation, aiInsights, loading,
                   pageError, activeTab, lastReturned,
                   lastTransformed>>
    /\ Commit(calls (+) One(Call("generate", Some(FileProp),
                                 Some(aiTab.codeInstruction))),
              preTab,
              [aiTab EXCEPT !.codeLoading = TRUE, !.executeResult = None],
              edaTab, insTab)

\* generateCode after its await: an ok response's body, or the catch's value.
\* instr records the instruction the code was generated for.
GenerateDone ==
    \E r \in InFlight("generate"), ok \in BOOLEAN, d \in GenBodies :
        /\ UNCHANGED <<uploadedFile, profile, correlation, aiInsights, loading,
                       pageError, activeTab, lastReturned,
                       lastTransformed>>
        /\ ~ok => d = [success |-> FALSE, code |-> FALSE]
        /\ Commit(calls (-) One(r), preTab,
                  IF ~r.live THEN aiTab
                  ELSE [aiTab EXCEPT !.codeLoading = FALSE,
                                     !.generatedCode =
                                         Some([success |-> d.success,
                                               code |-> d.code,
                                               instr |-> Val(r.arg)])],
                  edaTab, insTab)

\* executeCode up to its await; its button shows for generatedCode.success
\* and is disabled while executing.
ExecuteCode ==
    /\ MountedTab = "ai_preprocess"
    /\ IsSome(aiTab.generatedCode)
    /\ Val(aiTab.generatedCode).success
    /\ ~aiTab.executing
    /\ UNCHANGED <<uploadedFile, profile, correlation, aiInsights, loading,
                   pageError, activeTab, lastReturned,
                   lastTransformed>>
    /\ IF ~Val(aiTab.generatedCode).code
       THEN Commit(calls, preTab, aiTab, edaTab, insTab)
       ELSE Commit(calls (+) One(Call("execute", Some(FileProp),
                                      Some(aiTab.codeInstruction))),
                   preTab,
                   [aiTab EXCEPT !.executing = TRUE, !.executeResult = None],
                   edaTab, insTab)

\* data.success && data.new_file_id && onFileIdChange
ExecAppliesAlt(d) == IsSome(d.new_file_id)
ExecApplies(d) ==
    d.success = Some(TRUE) /\ IsSome(d.new_file_id) /\ AIPreprocessHasOnFileIdChange

\* What executeCode stores for a call that sent instruction instr.
ExecuteResult(d, instr) ==
    Some([success |-> d.success, new_file_id |-> d.new_file_id, instr |-> instr])
\* The value executeCode's catch stores.
ExecuteCatchAlt == [success |-> None, new_file_id |-> None]
ExecuteCatch == [success |-> Some(FALSE), new_file_id |-> None]

\* executeCode after its await, the response's JSON body being d.
ExecuteBodyWith(r, d) ==
    /\ uploadedFile' = IF ExecApplies(d)
                       THEN OnFileIdChange(uploadedFile, Val(d.new_file_id))
                       ELSE uploadedFile
    /\ lastTransformed' = IF d.success = Some(TRUE) /\ IsSome(d.new_file_id)
                          THEN d.new_file_id ELSE lastTransformed
    /\ UNCHANGED <<profile, correlation, aiInsights, loading, pageError,
                   activeTab, lastReturned>>
    /\ Commit(calls (-) One(r), preTab,
              IF ~r.live THEN aiTab
              ELSE [aiTab EXCEPT !.executing = FALSE,
                                 !.executeResult = ExecuteResult(d, Val(r.arg))],
              edaTab, insTab)
ExecuteBody ==
    \E r \in InFlight("execute"), d \in ExecBodies : ExecuteBodyWith(r, d)

\* executeCode after its await, the fetch rejected or the body not JSON.
ExecuteRejectWith(r) ==
    /\ UNCHANGED <<uploadedFile, profile, correlation, aiInsights, loading,
                   pageError, activeTab, lastReturned,
                   lastTransformed>>
    /\ Commit(calls (-) One(r), preTab,
              IF ~r.live THEN aiTab
              ELSE [aiTab EXCEPT !.executing = FALSE,
                                 !.executeResult =
                                     ExecuteResult(ExecuteCatch, Val(r.arg))],
              edaTab, insTab)
ExecuteReject == \E r \in InFlight("execute") : ExecuteRejectWith(r)

\* -------------------------------------------------------------- EDATab
\* fetchEDA after its await (the effect that starts it is part of Commit).
EdaDone ==
    \E r \in InFlight("eda"), ok \in BOOLEAN :
        /\ UNCHANGED <<uploadedFile, profile, correlation, aiInsights, loading,
                       pageError, activeTab, lastReturned,
                       lastTransformed>>
        /\ Commit(calls (-) One(r), preTab, aiTab,
                  IF ~r.live THEN edaTab
                  ELSE IF ok THEN [edaTab EXCEPT !.loading = FALSE,
                                                 !.edaData = r.file_id]
                  ELSE [edaTab EXCEPT !.loading = FALSE,
                                      !.error = Some("failed")],
                  insTab)

\* -------------------------------------------------------- AIInsightsTab
\* generate up to its await; its button is disabled while loading.
GenerateInsights ==
    /\ MountedTab = "insights"
    /\ ~insTab.loading
    /\ UNCHANGED <<uploadedFile, profile, correlation, aiInsights, loading,
                   pageError, activeTab, lastReturned,
                   lastTransformed>>
    /\ Commit(calls (+) One(Call("insights", Some(FileProp), None)), preTab,
              aiTab, edaTab, [loading |-> TRUE, error |-> None])

\* generate after its await; setInsights is the page's setter.
InsightsDone ==
    \E r \in InFlight("insights"), ok \in BOOLEAN :
        /\ aiInsights' = IF ok THEN r.file_id ELSE aiInsights
        /\ UNCHANGED <<uploadedFile, profile, correlation, loading, pageError,
                       activeTab, lastReturned, lastTransformed>>
        /\ Commit(calls (-) One(r), preTab, aiTab, edaTab,
                  IF ~r.live THEN insTab
                  ELSE IF ok THEN [insTab EXCEPT !.loading = FALSE]
                  ELSE [loading |-> FALSE, error |-> Some("failed")])

\* ------------------------------------------------- the analysis tabs
\* What a handler of an analysis tab leaves of the page's own state.
PageSame ==
    UNCHANGED <<uploadedFile, profile, correlation, aiInsights, loading,
                pageError, activeTab, lastReturned, lastTransformed>>
ResultsSame == UNCHANGED <<chartData, metricsResult, abTestResult>>
TabStep(c, an) ==
    PageSame /\ CommitAll(c, preTab, aiTab, edaTab, insTab, an)

\* How a remote call ends: an ok response, a response whose status is not
\* ok (its body is JSON), or a rejected fetch.
Outcomes == {"ok", "status", "network"}

\* -------------------------------------------------------- TimeSeriesTab
SetDateCol ==
    \E d \in {"", "d"} :
        /\ MountedTab = "timeseries"
        /\ d # tsTab.dateCol
        /\ ResultsSame
        /\ TabStep(calls, [An EXCEPT !.ts.dateCol = d])

SetValueCol ==
    \E v \in {"", "n"} :
        /\ MountedTab = "timeseries"
        /\ v # tsTab.valueCol
        /\ ResultsSame
        /\ TabStep(calls, [An EXCEPT !.ts.valueCol = v])

\* analyze: if (!dateCol || !valueCol) return
TsBound(ts) == ts.dateCol # "" /\ ts.valueCol # ""

\* analyze up to its await; it is not run while loading.
TsAnalyze ==
    /\ MountedTab = "timeseries"
    /\ ~tsTab.loading
    /\ ResultsSame
    /\ IF ~TsBound(tsTab) THEN TabStep(calls, An)
       ELSE TabStep(calls (+) One(Call("timeseries", Some(FileProp),
                                       Some([date_column |-> tsTab.dateCol,
                                             value_column |-> tsTab.valueCol]))),
                    [An EXCEPT !.ts.loading = TRUE, !.ts.error = None])

\* analyze after its await.
TsDoneWith(r, o) ==
    /\ ResultsSame
    /\ TabStep(calls (-) One(r),
               IF ~r.live THEN An
               ELSE IF o = "ok"
               THEN [An EXCEPT !.ts.loading = FALSE, !.ts.result = Some("ok")]
               ELSE [An EXCEPT !.ts.loading = FALSE,
                               !.ts.error = Some("failed")])
TsDone == \E r \in InFlight("timeseries"), o \in Outcomes : TsDoneWith(r, o)

\* ----------------------------------------------------------- SegmentTab
SetSegmentCol ==
    \E g \in {"", "c"} :
        /\ MountedTab = "segment"
        /\ g # segTab.segmentCol
        /\ ResultsSame
        /\ TabStep(calls, [An EXCEPT !.seg.segmentCol = g])

\* analyze: if (!segmentCol) return
SegBound(seg) == seg.segmentCol # ""

SegAnalyze ==
    /\ MountedTab = "segment"
    /\ ~segTab.loading
    /\ ResultsSame
    /\ IF ~SegBound(segTab) THEN TabStep(calls, An)
       ELSE TabStep(calls (+) One(Call("segment", Some(FileProp),
                                       Some([segment_column |->
                                                 segTab.segmentCol]))),
                    [An EXCEPT !.seg.loading = TRUE, !.seg.error = None])

SegDoneWith(r, o) ==
    /\ ResultsSame
    /\ TabStep(calls (-) One(r),
               IF ~r.live THEN An
               ELSE IF o = "ok"
               THEN [An EXCEPT !.seg.loading = FALSE, !.seg.result = Some("ok")]
               ELSE [An EXCEPT !.seg.loading = FALSE,
                               !.seg.error = Some("failed")])
SegDone == \E r \in InFlight("segment"), o \in Outcomes : SegDoneWith(r, o)

\* --------------------------------------------------- BusinessMetricsTab
\* calculate up to its await: every column it sends may be null.
Calculate ==
    /\ MountedTab = "metrics"
    /\ ~bmTab.loading
    /\ ResultsSame
    /\ TabStep(calls (+) One(Call("metrics", Some(FileProp), None)),
               [An EXCEPT !.bm = [loading |-> TRUE, error |-> None]])

\* calculate after its await; setResult is the page's setMetricsResult.
CalculateDoneWith(r, o) ==
    /\ metricsResult' = IF o = "ok" THEN r.file_id ELSE metricsResult
    /\ UNCHANGED <<chartData, abTestResult>>
    /\ TabStep(calls (-) One(r),
               IF ~r.live THEN An
               ELSE IF o = "ok" THEN [An EXCEPT !.bm.loading = FALSE]
               ELSE [An EXCEPT !.bm = [loading |-> FALSE,
                                       error |-> Some("failed")]])
CalculateDone ==
    \E r \in InFlight("metrics"), o \in Outcomes : CalculateDoneWith(r, o)

\* ---------------------------------------------------------- ForecastTab
\* The effect's fetch of forecast/columns ended: with lists that name a date
\* and a numeric column, with empty lists, or by a rejection (also raised
\* by a body without the lists), which is logged only.
FcColumnsDone ==
    \E r \in InFlight("fc_columns"), o \in {"columns", "empty", "network"} :
        /\ ResultsSame
        /\ TabStep(calls (-) One(r),
                   IF r.live /\ o = "columns"
                   THEN [An EXCEPT !.fc.dateColumn = "d",
                                   !.fc.valueColumn = "n",
                                   !.fc.whatIfColumn = "n"]
                   ELSE An)

\* runForecast up to its await; it is not run while loading.
RunForecast ==
    /\ MountedTab = "forecast"
    /\ ~fcTab.loading
    /\ ResultsSame
    /\ IF fcTab.dateColumn = "" \/ fcTab.valueColumn = ""
       THEN TabStep(calls, An)
       ELSE TabStep(calls (+) One(Call("forecast", Some(FileProp), None)),
                    [An EXCEPT !.fc.loading = TRUE, !.fc.error = None])

\* runForecast after its await.
ForecastDoneWith(r, o) ==
    /\ ResultsSame
    /\ TabStep(calls (-) One(r),
               IF ~r.live THEN An
               ELSE IF o = "ok"
               THEN [An EXCEPT !.fc.loading = FALSE,
                               !.fc.forecast = Some("ok")]
               ELSE [An EXCEPT !.fc.loading = FALSE,
                               !.fc.error = Some("failed")])
ForecastDone ==
    \E r \in InFlight("forecast"), o \in Outcomes : ForecastDoneWith(r, o)

\* What a handler that stores await res.json() without looking at res.ok
\* stores: the body of any response, and nothing for a rejected fetch.
StoredBody(o, old) ==
    CASE o = "ok" -> Some("ok")
      [] o = "status" -> Some("error body")
      [] OTHER -> old

\* runWhatIf up to its await; it is not run while whatIfLoading.
RunWhatIf ==
    /\ MountedTab = "forecast"
    /\ ~fcTab.whatIfLoading
    /\ ResultsSame
    /\ IF fcTab.whatIfColumn = "" THEN TabStep(calls, An)
       ELSE TabStep(calls (+) One(Call("whatif", Some(FileProp), None)),
                    [An EXCEPT !.fc.whatIfLoading = TRUE])

\* runWhatIf after its await; its catch only logs.
WhatIfDoneWith(r, o) ==
    /\ ResultsSame
    /\ TabStep(calls (-) One(r),
               IF ~r.live THEN An
               ELSE [An EXCEPT !.fc.whatIfLoading = FALSE,
                               !.fc.whatIfResult = StoredBody(o, @)])
WhatIfDone == \E r \in InFlight("whatif"), o \in Outcomes : WhatIfDoneWith(r, o)

\* runAnomaly up to its await; it is not run while anomalyLoading.
RunAnomaly ==
    /\ MountedTab = "forecast"
    /\ ~fcTab.anomalyLoading
    /\ ResultsSame
    /\ TabStep(calls (+) One(Call("anomaly", Some(FileProp), None)),
               [An EXCEPT !.fc.anomalyLoading = TRUE])

\* runAnomaly after its await; its catch only logs.
AnomalyDoneWith(r, o) ==
    /\ ResultsSame
    /\ TabStep(calls (-) One(r),
               IF ~r.live THEN An
               ELSE [An EXCEPT !.fc.anomalyLoading = FALSE,
                               !.fc.anomalyResult = StoredBody(o, @)])
AnomalyDone ==
    \E r \in InFlight("anomaly"), o \in Outcomes : AnomalyDoneWith(r, o)

\* --------------------------------------------------------- VisualizeTab
\* A chart type button's onClick, and the effect keyed on chartType.
SetChartType ==
    \E t \in ChartTypes :
        /\ MountedTab = "visualize"
        /\ t # visTab.chartType
        /\ ResultsSame
        /\ LET g == GenerateChart([visTab EXCEPT !.chartType = t], FileProp)
           IN TabStep(calls (+) g.call, [An EXCEPT !.vis = g.vis])

\* The x select's onChange, and the effect keyed on xColumn.
SetXColumn ==
    \E x \in {"n", "c"} :
        /\ MountedTab = "visualize"
        /\ x # visTab.xColumn
        /\ ResultsSame
        /\ LET g == GenerateChart([visTab EXCEPT !.xColumn = x], FileProp)
           IN TabStep(calls (+) g.call, [An EXCEPT !.vis = g.vis])

\* The y select's onChange (disabled for a histogram), and the effect keyed
\* on yColumn, which draws only for a y and a chart type that takes one.
SetYColumn ==
    \E y \in {"", "n"} :
        /\ MountedTab = "visualize"
        /\ visTab.chartType \notin {"histogram", "bar"}
        /\ y # visTab.yColumn
        /\ ResultsSame
        /\ LET v == [visTab EXCEPT !.yColumn = y]
               g == IF y # "" /\ v.xColumn # ""
                    THEN GenerateChart(v, FileProp)
                    ELSE [vis |-> v, call |-> EmptyBag]
           IN TabStep(calls (+) g.call, [An EXCEPT !.vis = g.vis])

\* generateChart after its await; setChartData is the page's setter.
ChartDoneWith(r, o) ==
    /\ chartData' = IF o = "ok"
                    THEN r.arg
                    ELSE chartData
    /\ UNCHANGED <<metricsResult, abTestResult>>
    /\ TabStep(calls (-) One(r),
               IF ~r.live THEN An
               ELSE LET latest == Val(r.arg).seq = visTab.issued
                        v == [visTab EXCEPT !.loading = FALSE,
                                            !.lastOk = IF latest THEN o = "ok"
                                                       ELSE @]
                    IN IF o = "ok" THEN [An EXCEPT !.vis = v]
                       ELSE [An EXCEPT !.vis = [v EXCEPT !.error =
                                                    Some("failed")]])
ChartDone == \E r \in InFlight("chart"), o \in Outcomes : ChartDoneWith(r, o)

\* ------------------------------------------------------------ ABTestTab
\* The columns offered as group column.
GroupCols == {"g", "h"}

\* The group column select's onChange; the effect keyed on groupCol is part
\* of the render that follows.
SetGroupCol ==
    \E g \in {""} \cup GroupCols :
        /\ MountedTab = "abtest"
        /\ g # abTab.groupCol
        /\ ResultsSame
        /\ TabStep(calls, [An EXCEPT !.ab.groupCol = g])

SetMetricCol ==
    \E m \in {"", "n"} :
        /\ MountedTab = "abtest"
        /\ m # abTab.metricCol
        /\ ResultsSame
        /\ TabStep(calls, [An EXCEPT !.ab.metricCol = m])

\* fetchGroupValues after its await: the response lists n values of the
\* column asked for (n = 0: the fetch failed).
ColumnValuesDoneWith(r, n) ==
    /\ ResultsSame
    /\ TabStep(calls (-) One(r),
               IF ~r.live THEN An
               ELSE IF n = 0
               THEN [An EXCEPT !.ab.loadingGroups = FALSE,
                               !.ab.groupValues = ""]
               ELSE IF n >= 2
               THEN [An EXCEPT !.ab.loadingGroups = FALSE,
                               !.ab.groupValues = Val(r.arg).column,
                               !.ab.groupA = Val(r.arg).column,
                               !.ab.groupB = Val(r.arg).column]
               ELSE [An EXCEPT !.ab.loadingGroups = FALSE,
                               !.ab.groupValues = Val(r.arg).column])
ColumnValuesDone ==
    \E r \in InFlight("column_values"), n \in 0..2 : ColumnValuesDoneWith(r, n)

\* runTest: if (!groupCol || !metricCol || !groupA || !groupB) return
RunTestBoundAlt(ab) == ab.groupCol # "" /\ ab.groupA # "" /\ ab.groupB # ""
RunTestBound(ab) ==
    ab.groupCol # "" /\ ab.metricCol # "" /\ ab.groupA # "" /\ ab.groupB # ""

\* runTest up to its await; it is not run while loading.
RunTest ==
    /\ MountedTab = "abtest"
    /\ ~abTab.loading
    /\ ResultsSame
    /\ IF ~RunTestBound(abTab) THEN TabStep(calls, An)
       ELSE TabStep(calls (+) One(Call("abtest", Some(FileProp),
                                       Some([group_column |-> abTab.groupCol,
                                             metric_column |-> abTab.metricCol,
                                             group_a_value |-> abTab.groupA,
                                             group_b_value |-> abTab.groupB]))),
                    [An EXCEPT !.ab.loading = TRUE, !.ab.error = None])

\* runTest after its await; setResult is the page's setAbTestResult.
TestDoneWith(r, o) ==
    /\ abTestResult' = IF o = "ok" THEN r.file_id ELSE abTestResult
    /\ UNCHANGED <<chartData, metricsResult>>
    /\ TabStep(calls (-) One(r),
               IF ~r.live THEN An
               ELSE IF o = "ok" THEN [An EXCEPT !.ab.loading = FALSE]
               ELSE [An EXCEPT !.ab.loading = FALSE,
                               !.ab.error = Some("failed")])
TestDone == \E r \in InFlight("abtest"), o \in Outcomes : TestDoneWith(r, o)

\* =======================================================================
\*                            SPECIFICATIONS
\* =======================================================================
\* The ChatPage form driving the store.
ChatNext == SetInput \/ HandleSubmit \/ ChatResponseOk \/ ChatResponseFail
\* The store driven by arbitrary callers of its actions.
StoreNext == SendMessage \/ ClearMessages \/ ChatResponseOk \/ ChatResponseFail

\* onDrop alone, and the page with its reset button.
UploadNext ==
    \/ OnDrop \/ UploadOk \/ UploadFail \/ ProfileBody \/ ProfileFail
    \/ CorrelationDone
PageNext == UploadNext \/ ResetAnalysis
PreprocessNext ==
    HandleProcess \/ PreprocessOk \/ PreprocessFail \/ PreprocessEffectDone

AICodeNext ==
    \/ SetCodeInstruction \/ GenerateCode \/ GenerateDone \/ ExecuteCode
    \/ ExecuteBody \/ ExecuteReject

\* The page with PreprocessTab.
LedgerNext == PageNext \/ SetActiveTab({"overview", "preprocess"}) \/ PreprocessNext

\* The page with AIPreprocessTab's code generator.
ExecNext == PageNext \/ SetActiveTab({"overview", "ai_preprocess"}) \/ AICodeNext

\* The page with the tabs that fetch against the current file id.
TabsNext ==
    \/ PageNext \/ SetActiveTab({"preprocess", "eda", "insights"})
    \/ PreprocessEffectDone \/ EdaDone \/ GenerateInsights \/ InsightsDone

TimeSeriesNext == SetDateCol \/ SetValueCol \/ TsAnalyze \/ TsDone
SegmentNext == SetSegmentCol \/ SegAnalyze \/ SegDone
ForecastNext ==
    \/ FcColumnsDone \/ RunForecast \/ ForecastDone \/ RunWhatIf \/ WhatIfDone
    \/ RunAnomaly \/ AnomalyDone
VisualizeNext == SetChartType \/ SetXColumn \/ SetYColumn \/ ChartDone
ABTestNext ==
    SetGroupCol \/ SetMetricCol \/ ColumnValuesDone \/ RunTest \/ TestDone

\* An uploaded file with the tabs that run an analysis on a button:
\* TimeSeriesTab and ForecastTab.
AnalysisNext ==
    \/ UploadNext \/ SetActiveTab({"timeseries", "forecast"})
    \/ TimeSeriesNext \/ ForecastNext

\* An uploaded file with the tabs whose requests need parameters, one of
\* which is opened from the overview.
ParamsNext ==
    \/ UploadNext
    \/ OpenTab({"timeseries", "segment", "metrics", "visualize", "abtest"})
    \/ TimeSeriesNext \/ SegmentNext \/ Calculate \/ CalculateDone
    \/ VisualizeNext \/ ABTestNext

\* An uploaded file with VisualizeTab.
ChartNext == UploadNext \/ SetActiveTab({"visualize"}) \/ VisualizeNext

\* An uploaded file with ABTestTab.
GroupsNext == UploadNext \/ SetActiveTab({"abtest"}) \/ ABTestNext

Init == ChatInit /\ DataInit
SpecChat == Init /\ [][ChatNext]_vars
SpecStore == Init /\ [][StoreNext]_vars
SpecLedger == Init /\ [][LedgerNext]_vars
SpecExec == Init /\ [][ExecNext]_vars
SpecTabs == Init /\ [][TabsNext]_vars
SpecAnalysis == Init /\ [][AnalysisNext]_vars
SpecParams == Init /\ [][ParamsNext]_vars
SpecChart == Init /\ [][ChartNext]_vars
SpecGroups == Init /\ [][GroupsNext]_vars

\* =======================================================================
\*                               CLAIMS
\* =======================================================================

\* C1 (as claimed): a submission made while isLoading is TRUE is a no-op for
\* every caller of the store's sendMessage: it leaves the message log and
\* agentSteps unchanged and issues no chat request, so at most one chat
\* request is in flight at any time.
C1_SubmitWhileLoadingIsNoOp ==
    /\ [](Len(chatCalls) <= 1)
    /\ [][(isLoading /\ chatEv'.op \in {"sendMessage", "submit", "submitRejected"})
            => /\ messages' = messages
               /\ agentSteps' = agentSteps
               /\ chatCalls' = chatCalls]_vars

\* C2: whenever the page holds a file, its file_id is the file id the most
\* recent successful upload or preprocessing response returned.
C2_CurrentIsLastReturned ==
    uploadedFile # None =>
        /\ lastReturned # None
        /\ Val(uploadedFile).file_id = Val(lastReturned)

\* C2 witness: PreprocessTab shows the result of a transformation whose new
\* file id differs from the uploaded file's, and the page now holds that id.
C2_Witness ==
    /\ MountedTab = "preprocess"
    /\ preTab.result = Some(Some(FileProp))
    /\ Val(uploadedFile).cols # None
    /\ Val(uploadedFile).cols # Some(FileProp)

\* C3 (as claimed): an executeCode response with success = true and a
\* new_file_id leaves the page's current file id equal to that new_file_id.
C3_ExecuteSuccessAdvancesFileId ==
    [][\A r \in InFlight("execute"), d \in ExecBodies :
          (/\ d.success = Some(TRUE)
           /\ IsSome(d.new_file_id)
           /\ ExecuteBodyWith(r, d))
          => /\ uploadedFile' # None
             /\ Val(uploadedFile').file_id = Val(d.new_file_id)]_vars

\* C4: an executeCode call that fails (the fetch is rejected, or the response
\* says success = false) leaves the page's file unchanged, and the tab that
\* issued it, if still mounted, holds an executeResult with success = false.
C4_FailedExecuteKeepsFileId ==
    [][\A r \in InFlight("execute") :
          ((\/ ExecuteRejectWith(r)
            \/ \E d \in ExecBodies : d.success = Some(FALSE) /\ ExecuteBodyWith(r, d))
           => /\ uploadedFile' = uploadedFile
              /\ r.live => /\ aiTab'.executeResult # None
                           /\ Val(aiTab'.executeResult).success = Some(FALSE))]_vars

\* C4 witness: AIPreprocessTab shows a failed execution whose response
\* carried a new file id other than the page's, which the page did not take.
C4_Witness ==
    /\ MountedTab = "ai_preprocess"
    /\ ~aiTab.executing
    /\ aiTab.executeResult # None
    /\ Val(aiTab.executeResult).success = Some(FALSE)
    /\ IsSome(Val(aiTab.executeResult).new_file_id)
    /\ Val(Val(aiTab.executeResult).new_file_id) # FileProp

\* C5 (as claimed): a preprocessing response whose new file id is the
\* current file id or the id the file was uploaded under is refused: the
\* page's file stays as it is and the tab, if mounted, reports an error.
C5_DuplicateVersionRejected ==
    [][\A r \in InFlight("preprocess"), new \in FileIds :
          (/\ uploadedFile # None
           /\ new = FileProp \/ Some(new) = Val(uploadedFile).cols
           /\ PreprocessOkWith(r, Some(new)))
          => /\ uploadedFile' = uploadedFile
             /\ r.live => preTab'.error # None]_vars

\* C6 (as claimed): among the calls of the tabs in flight, no two address the
\* same endpoint with the same file id and the same parameters.
C6_AtMostOneCallPerKey ==
    \A r \in BagToSet(calls) :
        Owner(r.kind) # "page" =>
            SumCopies(calls, {q \in BagToSet(calls) :
                                  /\ Owner(q.kind) # "page"
                                  /\ Endpoint(q.kind) = Endpoint(r.kind)
                                  /\ q.file_id = r.file_id
                                  /\ q.arg = r.arg}) <= 1

\* C7 (as claimed): once a transformation has succeeded with new file id F1,
\* every call a tab issues afterwards carries F1.
C7_RequestsCarryTransformedId ==
    [][lastTransformed # None =>
          \A c \in BagToSet(calls') :
              (Owner(c.kind) # "page" /\ CopiesIn(c, calls') > CopiesIn(c, calls))
                  => c.file_id = lastTransformed]_vars

\* C8 (as claimed): executeCode run again, with the instruction unchanged,
\* right after an execution that succeeded with a new file id, issues a call
\* of its own, and that call carries the new file id.
C8_SecondExecuteCarriesNewId ==
    [][(/\ ExecuteCode
        /\ Val(aiTab.generatedCode).code
        /\ aiTab.executeResult # None
        /\ Val(aiTab.executeResult).success = Some(TRUE)
        /\ IsSome(Val(aiTab.executeResult).new_file_id)
        /\ Val(aiTab.executeResult).instr = aiTab.codeInstruction)
       => LET c == Call("execute", Val(aiTab.executeResult).new_file_id,
                        Some(aiTab.codeInstruction))
          IN /\ SumCopies(calls', InFlight("execute")') =
                    SumCopies(calls, InFlight("execute")) + 1
             /\ CopiesIn(c, calls') = CopiesIn(c, calls) + 1]_vars

\* The index of the most recent assistant message of the log, 0 if none.
LastAssistantIndex ==
    LET A == {i \in DOMAIN messages : messages[i].role = "assistant"}
    IN IF A = {} THEN 0 ELSE CHOOSE i \in A : \A j \in A : j <= i

\* C9 (as claimed): overallConfidence is the confidence of the most recent
\* assistant message of the log, and 0 if the log has no assistant message.
C9_ConfidenceOfLastAssistant ==
    IF LastAssistantIndex = 0 THEN OverallConfidence(messages) = 0
    ELSE Some(OverallConfidence(messages)) = messages[LastAssistantIndex].confidence

\* C9 (amended): overallConfidence is the confidence of the most recent
\* assistant message when that message carries one, and 0 when the log has no
\* assistant message or the most recent one carries no confidence (an error
\* message); right after a successful turn it is the response's confidence,
\* or 0 when the response carried none.
C9_ConfidenceOfLastAssistantOrZero ==
    /\ OverallConfidence(messages) =
           IF LastAssistantIndex = 0 THEN 0
           ELSE IF messages[LastAssistantIndex].confidence = None THEN 0
           ELSE Val(messages[LastAssistantIndex].confidence)
    /\ chatEv.op = "chatOk" =>
           OverallConfidence(messages) =
               IF chatEv.arg = None THEN 0 ELSE Val(chatEv.arg)

\* C9 witness: two assistant messages with different confidences, the later
\* one answering a successful turn.
C9_Witness ==
    /\ chatEv.op = "chatOk"
    /\ chatEv.arg = Some(9)
    /\ \E i \in DOMAIN messages :
           /\ i < LastAssistantIndex
           /\ messages[i].role = "assistant"
           /\ messages[i].confidence = Some(5)

\* C10: a form submission whose text is empty or only white space appends no
\* user message, does not set isLoading and issues no chat request.
C10_BlankSubmitIsNoOp ==
    [][(HandleSubmit /\ Trim(input) = <<>>)
        => UNCHANGED <<messages, isLoading, chatCalls>>]_vars

\* C10 witness: the form was submitted with a non-empty text of white space
\* only while no submission was in flight, and nothing was sent.
C10_Witness ==
    /\ chatEv.op = "submitRejected"
    /\ Val(chatEv.arg) # <<>>
    /\ Trim(Val(chatEv.arg)) = <<>>
    /\ ~isLoading
    /\ chatCalls = <<>>

\* C11 (as claimed): after a successful chat response the store's agentSteps
\* and executionOrder are the response's own lists, and empty when the
\* response carries none; nothing of an earlier turn remains.
C11_StepsReplacedWholesale ==
    [][\A i \in DOMAIN chatCalls, d \in ChatResponses :
          ChatResponseOkWith(i, d) =>
              /\ agentSteps' = IF IsSome(d.agent_steps) THEN Val(d.agent_steps)
                               ELSE <<>>
              /\ executionOrder' = IF IsSome(d.execution_order)
                                   THEN Val(d.execution_order) ELSE <<>>]_vars

\* C12: every chat request carries as session_id the session id of the most
\* recent successful response that had one (none before any such response),
\* and the stored session id is that same id.
C12_RequestEchoesLatestSession ==
    /\ [](currentSessionId = lastSession)
    /\ [][Len(chatCalls') > Len(chatCalls) =>
              chatCalls'[Len(chatCalls')].session_id = lastSession]_vars

\* C12 witness: after an answered turn, a request in flight carries the
\* session id s2 that a response brought.
C12_Witness ==
    /\ chatCalls # <<>>
    /\ chatCalls[Len(chatCalls)].session_id = Some("s2")
    /\ lastSession = Some("s2")
    /\ \E k \in DOMAIN messages : messages[k].role = "assistant"

\* C13: a failed chat request appends exactly one assistant message with
\* isError set, stores the error text in the store's error field, and leaves
\* agentSteps and executionOrder as they were when the query was submitted
\* (nothing writes them while the request is awaited).
C13_FailureAppendsOneErrorMessage ==
    /\ [][\A i \in DOMAIN chatCalls, m \in ChatFailures :
             ChatResponseFailWith(i, m) =>
                 /\ Len(messages') = Len(messages) + 1
                 /\ SubSeq(messages', 1, Len(messages)) = messages
                 /\ messages'[Len(messages')].role = "assistant"
                 /\ messages'[Len(messages')].isError
                 /\ error' = Some(m)
                 /\ UNCHANGED <<agentSteps, executionOrder>>]_vars
    /\ [][(chatCalls # <<>> /\ chatCalls' = chatCalls) =>
              UNCHANGED <<agentSteps, executionOrder>>]_vars

\* C13 witness: a turn failed after an earlier turn had left agent steps.
C13_Witness ==
    /\ chatEv.op = "chatFail"
    /\ agentSteps # <<>>
    /\ executionOrder # <<>>
    /\ error = Some("API request failed")
    /\ messages[Len(messages)].isError

\* C14: isLoading is true exactly while a chat request is awaited: it is set
\* when a submission is accepted, stays true until the response or failure
\* arrives, and the step that completes the call leaves it false.
C14_LoadingSpansTheCall ==
    /\ [](isLoading <=> chatCalls # <<>>)
    /\ [][Len(chatCalls') < Len(chatCalls) => ~isLoading']_vars
    /\ [][Len(chatCalls') > Len(chatCalls) => isLoading']_vars

\* C14 witness: the second of two accepted submissions has completed, by a
\* response or a failure, and isLoading is false again.
C14_Witness ==
    /\ chatEv.op \in {"chatFail", "chatOk"}
    /\ ~isLoading
    /\ chatCalls = <<>>
    /\ Len(messages) = 4

\* C15 (as claimed): clearMessages leaves messages, agentSteps and
\* executionOrder empty and the store's error field null.
C15_ResetClearsEverything ==
    [][ClearMessages =>
          /\ messages' = <<>>
          /\ agentSteps' = <<>>
          /\ executionOrder' = <<>>
          /\ error' = None]_vars

\* C16: a successful response to an accepted submission appends exactly one
\* message, an assistant message that comes after the submission's user
\* message and carries the response's answer, confidence and agent steps.
C16_SuccessAppendsOneAnswer ==
    [][\A i \in DOMAIN chatCalls, d \in ChatResponses :
          ChatResponseOkWith(i, d) =>
              /\ Len(messages') = Len(messages) + 1
              /\ SubSeq(messages', 1, Len(messages)) = messages
              /\ messages'[Len(messages')].role = "assistant"
              /\ ~messages'[Len(messages')].isError
              /\ messages'[Len(messages')].content = d.answer
              /\ messages'[Len(messages')].confidence = d.confidence
              /\ messages'[Len(messages')].agentSteps = d.agent_steps
              /\ messages[Len(messages)] = UserMessage(chatCalls[i].query)]_vars

\* C16 witness: the log ends with a user message followed by the answer to
\* it, which carries a confidence and two agent steps.
C16_Witness ==
    /\ chatEv.op = "chatOk"
    /\ Len(messages) >= 2
    /\ messages[Len(messages) - 1].role = "user"
    /\ messages[Len(messages)].role = "assistant"
    /\ messages[Len(messages)].confidence = Some(9)
    /\ IsSome(messages[Len(messages)].agentSteps)
    /\ Len(Val(messages[Len(messages)].agentSteps)) = 2

\* C17: every step of the store other than clearMessages keeps the messages
\* already in the log, unchanged and in their order, and adds only at the end.
C17_LogIsAppendOnly ==
    [][\/ ClearMessages
       \/ /\ Len(messages') >= Len(messages)
          /\ SubSeq(messages', 1, Len(messages)) = messages]_vars

\* C17 witness: a log of four messages built by two turns of which the first
\* failed and the second succeeded.
C17_Witness ==
    /\ Len(messages) = 4
    /\ messages[1].role = "user"
    /\ messages[2].isError
    /\ messages[3].role = "user"
    /\ messages[4].role = "assistant" /\ ~messages[4].isError

\* C18: for each of the four agents, the status its card shows is 'waiting'
\* when isLoading holds and agentSteps has no step of that agent, 'completed'
\* when agentSteps has a step of it, whatever isLoading is, and 'idle'
\* otherwise.
C18_AgentStatusProjection ==
    \A name \in AgentNames :
        LET has == \E k \in DOMAIN agentSteps : agentSteps[k].agent_name = name
        IN /\ (isLoading /\ ~has) => AgentStatus(name) = "waiting"
           /\ has => AgentStatus(name) = "completed"
           /\ (~isLoading /\ ~has) => AgentStatus(name) = "idle"

\* C18 witness: a second query is being answered while the first turn's steps
\* are still in the store: one agent shows completed, another waiting.
C18_Witness ==
    /\ isLoading
    /\ AgentStatus("law_expert") = "completed"
    /\ AgentStatus("strategist") = "waiting"

\* C19: a preprocessing request that fails leaves the page's file unchanged;
\* the tab that issued it, if still mounted, holds no result and shows the
\* error; and handleProcess run again sends the file id the page then holds.
C19_FailedPreprocessKeepsFileId ==
    /\ [][\A r \in InFlight("preprocess") :
             PreprocessFailWith(r) =>
                 /\ uploadedFile' = uploadedFile
                 /\ r.live => /\ preTab'.result = None
                              /\ preTab'.error # None
                              /\ ~preTab'.loading]_vars
    /\ [][HandleProcess =>
             LET c == Call("preprocess", Some(Val(uploadedFile).file_id), None)
             IN CopiesIn(c, calls') = CopiesIn(c, calls) + 1]_vars

\* C19 witness: after a transformation had moved the page to a new file id, a
\* further preprocessing request failed: the tab shows the error and no
\* result, and the page still holds the new file id.
C19_Witness ==
    /\ MountedTab = "preprocess"
    /\ ~preTab.loading
    /\ preTab.error # None
    /\ preTab.result = None
    /\ InFlight("preprocess") = {}
    /\ Val(uploadedFile).cols # None
    /\ Val(uploadedFile).cols # Some(FileProp)
    /\ lastReturned = Some(FileProp)

\* The page's current file id: None while no file is held.
CurrentFileId ==
    IF uploadedFile = None THEN None ELSE Some(Val(uploadedFile).file_id)

\* C20 (as claimed): the current file id changes only in the step of a
\* successful upload, which sets it to the uploaded id, or of a successful
\* transformation, which sets it to the response's new id.
C20_OnlyUploadOrTransformationWrites ==
    [][CurrentFileId' # CurrentFileId =>
          \/ \E r \in InFlight("upload"), f \in FileIds :
                 UploadOkWith(r, f) /\ CurrentFileId' = Some(f)
          \/ \E r \in InFlight("preprocess"), new \in FileIds :
                 PreprocessOkWith(r, Some(new)) /\ CurrentFileId' = Some(new)]_vars

\* C20 (amended): the current file id changes only in the step of a
\* successful upload, of a successful transformation, or of resetAnalysis,
\* which clears it; no tab switch, analysis request or failed request
\* changes it.
C20_OnlyUploadTransformationOrResetWrites ==
    [][CurrentFileId' # CurrentFileId =>
          \/ \E r \in InFlight("upload"), f \in FileIds :
                 UploadOkWith(r, f) /\ CurrentFileId' = Some(f)
          \/ \E r \in InFlight("preprocess"), new \in FileIds :
                 PreprocessOkWith(r, Some(new)) /\ CurrentFileId' = Some(new)
          \/ ResetAnalysis /\ CurrentFileId' = None]_vars

\* C20 witness: the analysis was reset while a fetch of PreprocessTab was
\* still awaited, and the page holds no file id.
C20_Witness ==
    /\ CurrentFileId = None
    /\ activeTab = "overview"
    /\ InFlight("pre_eda") # {}
    /\ \A r \in InFlight("pre_eda") : ~r.live

\* C21 (as claimed): no AI-insights call is issued for a file id whose
\* insights, requested with the same parameters, the page already holds.
C21_ReadyResultIsReplayed ==
    [][\A c \in BagToSet(calls') :
          ( /\ c.kind = "insights" /\ c.live
            /\ CopiesIn(c, calls') > CopiesIn(c, calls) )
              => aiInsights # c.file_id]_vars

\* C24 (as claimed): whenever the results block is rendered, the profile and
\* the column lists handed to the tabs are those of the file id handed to
\* them: no new file id is paired with the previous version's profile.
C24_ProfileIsOfCurrentVersion ==
    Visible => /\ Val(profile).of = FileProp
               /\ Val(uploadedFile).cols = Some(FileProp)

\* C25 (as claimed): a preprocessing response that arrives after a reset
\* leaves uploadedFile null, and one whose request carried the id of an
\* earlier upload (the present upload has not been transformed and has
\* another id) leaves the present upload's file id alone.
C25_LateResponseAfterResetIsDropped ==
    [][\A r \in InFlight("preprocess"), new \in NewFileIds :
          PreprocessOkWith(r, new) =>
              /\ uploadedFile = None => uploadedFile' = None
              /\ ( /\ uploadedFile # None
                   /\ lastTransformed = None
                   /\ r.file_id # Val(uploadedFile).cols )
                     => uploadedFile' = uploadedFile]_vars

\* C26 (as claimed): whenever loading is false, uploadedFile is set only
\* together with a profile, and that profile is the one of the uploaded file.
C26_UploadIsAllOrNothing ==
    (~loading /\ uploadedFile # None) =>
        /\ profile # None
        /\ Some(Val(profile).of) = Val(uploadedFile).cols

\* C27 (as claimed): every analysis result the page holds and the tabs show
\* (here the correlation and the AI insights) was computed for the file id
\* the tabs are rendered with.
C27_ResultsAreOfCurrentFileId ==
    Visible => /\ correlation \in {None, Some(FileProp)}
               /\ aiInsights \in {None, Some(FileProp)}

\* C30 (as claimed): the instruction an execute-code call sends is the one
\* sent by the generate-code call whose code is displayed.
C30_ExecuteSendsGeneratingInstruction ==
    [][\A c \in BagToSet(calls') :
          ( /\ c.kind = "execute" /\ c.live
            /\ CopiesIn(c, calls') > CopiesIn(c, calls) )
              => /\ IsSome(aiTab.generatedCode)
                 /\ c.arg = Some(Val(aiTab.generatedCode).instr)]_vars

\* The analyses run from a button of TimeSeriesTab and ForecastTab, and what
\* the tab states ts, fc hold of each: its result, the error shown for it,
\* its loading flag.
AnalysisKinds == {"timeseries", "forecast", "whatif", "anomaly"}
ResultOf(ts, fc, kind) ==
    CASE kind = "timeseries" -> ts.result
      [] kind = "forecast" -> fc.forecast
      [] kind = "whatif" -> fc.whatIfResult
      [] kind = "anomaly" -> fc.anomalyResult
ErrorOf(ts, fc, kind) == IF kind = "timeseries" THEN ts.error ELSE fc.error
LoadingOf(ts, fc, kind) ==
    CASE kind = "timeseries" -> ts.loading
      [] kind = "forecast" -> fc.loading
      [] kind = "whatif" -> fc.whatIfLoading
      [] kind = "anomaly" -> fc.anomalyLoading
AnalysisDoneWith(r, o) ==
    CASE r.kind = "timeseries" -> TsDoneWith(r, o)
      [] r.kind = "forecast" -> ForecastDoneWith(r, o)
      [] r.kind = "whatif" -> WhatIfDoneWith(r, o)
      [] r.kind = "anomaly" -> AnomalyDoneWith(r, o)

\* C22 (as claimed): when the call of a mounted tab's analysis fails, by a
\* status that is not ok or by a rejected fetch, the handler stores nothing
\* as the result, an error is shown and loading ends; for every kind.
C22_FailureStoresNothingAndSurfaces ==
    [][\A r \in BagToSet(calls), o \in {"status", "network"} :
          (r.kind \in AnalysisKinds /\ r.live /\ AnalysisDoneWith(r, o)) =>
              /\ ResultOf(tsTab', fcTab', r.kind) = ResultOf(tsTab, fcTab, r.kind)
              /\ ErrorOf(tsTab', fcTab', r.kind) # None
              /\ ~LoadingOf(tsTab', fcTab', r.kind)]_vars

\* Whether the request c carries every mandatory parameter of its kind.
ParamsBound(c) ==
    CASE c.kind = "abtest" ->
             /\ Val(c.arg).group_column # "" /\ Val(c.arg).metric_column # ""
             /\ Val(c.arg).group_a_value # "" /\ Val(c.arg).group_b_value # ""
      [] c.kind = "timeseries" ->
             Val(c.arg).date_column # "" /\ Val(c.arg).value_column # ""
      [] c.kind = "segment" -> Val(c.arg).segment_column # ""
      [] c.kind = "chart" ->
             /\ Val(c.arg).x # ""
             /\ Val(c.arg).type = "histogram" => Val(c.arg).x \in NumericCols
             /\ Val(c.arg).type \in {"scatter", "line"} => Val(c.arg).y # ""
      [] OTHER -> TRUE

\* Whether the parameters the tab state holds are all bound.
ChartBound(v) ==
    /\ v.xColumn # ""
    /\ v.chartType = "histogram" => v.xColumn \in NumericCols
    /\ v.chartType \in {"scatter", "line"} => v.yColumn # ""

\* C23 (as claimed): a request of the A/B test, time series, segment or chart
\* kind is issued only with every mandatory parameter of its kind bound; a
\* handler that runs with one of them unbound issues no call and does not
\* set its loading flag.
C23_CallsOnlyWithParametersBound ==
    [][LET Issued(kind) ==
               {c \in BagToSet(calls') :
                    /\ c.kind = kind /\ c.live
                    /\ CopiesIn(c, calls') > CopiesIn(c, calls)}
           Quiet(kind, before, after) ==
               Issued(kind) = {} /\ (after.loading => before.loading)
       IN /\ \A c \in BagToSet(calls') :
                 CopiesIn(c, calls') > CopiesIn(c, calls) => ParamsBound(c)
          /\ MountedTab' = MountedTab =>
                 /\ ~RunTestBound(abTab) => Quiet("abtest", abTab, abTab')
                 /\ ~TsBound(tsTab) => Quiet("timeseries", tsTab, tsTab')
                 /\ ~SegBound(segTab) => Quiet("segment", segTab, segTab')
                 /\ ~ChartBound(visTab') => Quiet("chart", visTab, visTab')]_vars

\* A scatter chart was chosen with no y column: generateChart ran and issued
\* nothing (the tab's only request, that of its mount, has been answered).
C23_Witness ==
    /\ MountedTab = "visualize"
    /\ visTab.chartType = "scatter" /\ visTab.yColumn = ""
    /\ visTab.issued = 1 /\ ~visTab.loading
    /\ InFlight("chart") = {}

\* C28 (as claimed): in the mounted VisualizeTab loading is true while one
\* of its chart requests is in flight, and once no chart request is in
\* flight and the latest request issued was answered ok, chartData is the
\* response to that request.
C28_LatestChartRequestWins ==
    MountedTab = "visualize" =>
        /\ (\E r \in InFlight("chart") : r.live) => visTab.loading
        /\ (InFlight("chart") = {} /\ visTab.lastOk) =>
               /\ chartData # None
               /\ Val(chartData).seq = visTab.issued

\* C29 (as claimed): in the mounted ABTestTab, once no column-values request
\* of the tab is in flight, groupValues, groupA and groupB are empty or
\* belong to the selected group column, and no ab-test request carries a
\* group value of another column than its group column.
C29_GroupValuesOfSelectedColumn ==
    /\ (MountedTab = "abtest" /\ \A r \in InFlight("column_values") : ~r.live)
           => /\ abTab.groupValues \in {"", abTab.groupCol}
              /\ abTab.groupA \in {"", abTab.groupCol}
              /\ abTab.groupB \in {"", abTab.groupCol}
    /\ \A c \in InFlight("abtest") :
           /\ Val(c.arg).group_a_value = Val(c.arg).group_column
           /\ Val(c.arg).group_b_value = Val(c.arg).group_column
=============================================================================
